---- MODULE Spec2Model ----
(***************************************************************************)
(* Offramps (sinks) of tremor-runtime: the Elastic offramp with its        *)
(* AsyncSink-gated worker pool and contraflow Insights, the AsyncSink      *)
(* primitive driven on its own, and the NewRelic offramp.                  *)
(*                                                                         *)
(* Specifications:                                                         *)
(*   Spec      the Elastic offramp (src/src/dynamic/offramp/elastic.rs)    *)
(*   FairSpec  Spec with weak fairness of the worker pool's threads        *)
(*   SinkSpec  AsyncSink (crate::async_sink, not part of the sources,      *)
(*             modelled from the specification) driven by arbitrary calls  *)
(*   NRSpec    the NewRelic offramp (src/src/offramp/newrelic.rs)          *)
(***************************************************************************)
EXTENDS Integers, Sequences, FiniteSets, TLC

\* ------------------------------------------------------------------ bounds
\* largest configured `concurrency`
MaxConcurrency == 2
\* largest number of configured endpoints
MaxEndpoints == 2
\* number of units the model lets an offramp hand to its worker pool
MaxUnits == 3
\* largest number of sub-events of one event
MaxBatch == 2
\* number of nodes of a graph declaration
MaxNodes == 3
\* largest number of edges of a graph declaration
MaxEdges == 3

PipelineIds == {"p1", "p2"}
Handles == {"h1", "h2"}

VARIABLES
    concurrency,  \* Config.concurrency: pool size and AsyncSink limit
    nclients,     \* clients.len()
    client_idx,   \* Elastic.client_idx
    pipelines,    \* Elastic.pipelines / NewRelic.pipelines: id -> handle
    queue,        \* AsyncSink: the outstanding receivers, oldest first
    units,        \* the jobs handed to the thread pool, in submission order
    open,         \* the pipeline handles whose receiving end is alive
    last,         \* the most recent call on the offramp and what it returned
    hist,         \* SinkSpec: the last three calls on the AsyncSink;
                  \* ChanSpec: the order of the last Insight broadcast;
                  \* WireSpec: the call before `last`
    pc,           \* where the thread that runs the offramp is ("new": no
                  \* offramp has been built)
    sink,         \* which offramp the state is one of
    graph,        \* GraphSpec: the declaration and what building it gave
    out           \* EventSpec: the event of the last on_event and what was
                  \* made of it

vars == <<concurrency, nclients, client_idx, pipelines, queue, units, open,
          last, hist, pc, sink, graph, out>>

\* ------------------------------------------------------- AsyncSink (4.1)
\* has_capacity(): outstanding_count < limit
HasCapacity(q, limit) == Len(q) < limit

Enqueue_OffByOne(q, limit, h) ==
    IF Len(q) > limit
    THEN [res |-> "CapacityExceeded", queue |-> q]
    ELSE [res |-> "Ok", queue |-> Append(q, h)]

Enqueue_KeepsRefused(q, limit, h) ==
    IF Len(q) >= limit
    THEN [res |-> "CapacityExceeded", queue |-> Append(q, h)]
    ELSE [res |-> "Ok", queue |-> Append(q, h)]

\* enqueue(work_handle): CapacityExceeded, no state change, when the number
\* of outstanding handles already equals the limit
Enqueue(q, limit, h) ==
    IF Len(q) >= limit
    THEN [res |-> "CapacityExceeded", queue |-> q]
    ELSE [res |-> "Ok", queue |-> Append(q, h)]

Dequeue_AnyReady(q, ready) ==
    IF q = <<>>
    THEN [res |-> "Empty", queue |-> q, unit |-> 0]
    ELSE IF \E i \in 1..Len(q) : q[i] \in ready
         THEN LET i == CHOOSE j \in 1..Len(q) :
                          q[j] \in ready /\ \A k \in 1..(j - 1) : q[k] \notin ready
              IN  [res |-> "Completed", unit |-> q[i],
                   queue |-> SubSeq(q, 1, i - 1) \o SubSeq(q, i + 1, Len(q))]
         ELSE [res |-> "NotReady", queue |-> q, unit |-> 0]

\* dequeue(): non-blocking poll of the next-in-line unit; `ready` is the set
\* of handles whose result has been sent
Dequeue(q, ready) ==
    IF q = <<>>
    THEN [res |-> "Empty", queue |-> q, unit |-> 0]
    ELSE IF Head(q) \in ready
         THEN [res |-> "Completed", queue |-> Tail(q), unit |-> Head(q)]
         ELSE [res |-> "NotReady", queue |-> q, unit |-> 0]

\* ------------------------------------------------------------ Event (4.2)
\* A sub-event as Elastic::on_event reads it: are meta["index"],
\* meta["doc_type"], meta["pipeline"] strings, and is the value JSON.
SubEvents ==
    { [index |-> TRUE,  doc_type |-> TRUE,  pipeline |-> FALSE, json |-> TRUE],
      [index |-> TRUE,  doc_type |-> TRUE,  pipeline |-> TRUE,  json |-> TRUE],
      [index |-> FALSE, doc_type |-> TRUE,  pipeline |-> FALSE, json |-> TRUE],
      [index |-> TRUE,  doc_type |-> FALSE, pipeline |-> FALSE, json |-> TRUE],
      [index |-> TRUE,  doc_type |-> TRUE,  pipeline |-> FALSE, json |-> FALSE] }

\* event.into_iter(): the sub-events in order (one for a non-batch event)
Events == UNION { [1..n -> SubEvents] : n \in 1..MaxBatch }

ActionLine(i, e) == [kind |-> "action", sub |-> i, pipeline |-> e.pipeline]
DocLine(i) == [kind |-> "doc", sub |-> i]

\* The loop of Elastic::on_event over the sub-events from position i on, with
\* the payload built so far: `return` on a missing index or doc_type, else the
\* action line, and the document line when the value is JSON.
RECURSIVE BuildPayload(_, _, _)
BuildPayload(ev, i, payload) ==
    IF i > Len(ev) THEN [aborted |-> FALSE, payload |-> payload]
    ELSE IF ~ev[i].index THEN [aborted |-> TRUE, payload |-> payload]
    ELSE IF ~ev[i].doc_type THEN [aborted |-> TRUE, payload |-> payload]
    ELSE BuildPayload(ev, i + 1,
            IF ev[i].json
            THEN payload \o <<ActionLine(i, ev[i]), DocLine(i)>>
            ELSE payload \o <<ActionLine(i, ev[i])>>)

\* --------------------------------------------------------- Elastic offramp
NoTable == [p \in {} |-> "h1"]

\* no error
NoError == [kind |-> "none", names |-> ""]

\* nothing declared, nothing built
NoGraph == [id |-> "", edges |-> {}, built |-> "none", order |-> <<>>,
            error |-> NoError]

\* no on_event recorded
NoOut == [event |-> <<>>, lines |-> <<>>, submitted |-> FALSE]

\* the address a pipeline id is linked under when the offramp is wired
AddrOf(id) == IF id = "p1" THEN "h1" ELSE "h2"

NoCall == [op |-> "none", arg |-> "", full |-> FALSE, res |-> "none",
           deq |-> "none", ret |-> "none", unit |-> 0, addr |-> "",
           names |-> ""]

UnitIds == 1..Len(units)

\* the receivers whose sender has sent the result (rx.try_recv() succeeds)
Ready == {u \in UnitIds : units[u].state = "done"}

\* units handed to the pool whose result has not been dequeued
Outstanding == {u \in UnitIds : ~units[u].dequeued}

HasThread_PoolTooSmall(u) ==
    Cardinality({v \in 1..(u - 1) : units[v].state # "done"}) < concurrency - 1

\* ThreadPool::new(concurrency): jobs are taken in submission order by
\* `concurrency` threads; a job has a thread once fewer than `concurrency`
\* earlier jobs are unfinished.
HasThread(u) ==
    Cardinality({v \in 1..(u - 1) : units[v].state # "done"}) < concurrency

MkInsight_AlwaysTime(r) ==
    [is_batch |-> FALSE, id |-> 0, value |-> "None", kind |-> "None",
     meta |-> [k \in {"time"} |-> "millis"]]

\* The Insight built by the worker from the result r of flush.
MkInsight(r) ==
    [is_batch |-> FALSE, id |-> 0, value |-> "None", kind |-> "None",
     meta |-> IF r = "Ok"
              THEN [k \in {"time"} |-> "millis"]
              ELSE [k \in {"error"} |-> "Failed to send to ES"]]

Overloaded_Never(d) == FALSE

\* a guard that lets one handle more than the limit in
Overloaded_OverLimit(d) == d.res = "NotReady" /\ Len(d.queue) > concurrency

\* the guard of the first arm of maybe_enque's match
Overloaded(d) == d.res = "NotReady" /\ ~HasCapacity(d.queue, concurrency)

\* the round-robin step of enqueue_send_future
\* an index that is never taken back to the first endpoint
NextClient_NoWrap(idx, n) == IF idx + 1 < n THEN idx + 1 ELSE idx

NextClient(idx, n) == (idx + 1) % n

\* The job closure handed to pool.execute, before it has run: its
\* destination and its copy of the registration table. `got` is what its
\* sends have put on the channel of each entry.
NewJob(dest, table) ==
    [state |-> "queued", r |-> "none", dest |-> dest, targets |-> table,
     got |-> [p \in {} |-> MkInsight("Ok")],
     built |-> 0, dequeued |-> FALSE]

\* A job whose result has been taken from the AsyncSink: closure, channel and
\* result are dropped.
Retired ==
    [state |-> "done", r |-> "none", dest |-> 0, targets |-> NoTable,
     got |-> [p \in {} |-> MkInsight("Ok")],
     built |-> 0, dequeued |-> TRUE]

\* enqueue_send_future, on the AsyncSink queue q left by the dequeue: the
\* job is handed to the pool, then its receiver is enqueued.
EnqueueSendFuture(q) ==
    LET idx == NextClient(client_idx, nclients)
        u   == Len(units) + 1
        e   == Enqueue(q, concurrency, u)
    IN  [res |-> IF e.res = "Ok" THEN "Ok" ELSE "Err",
         client_idx |-> idx,
         units |-> Append(units, NewJob(idx, pipelines)),
         queue |-> e.queue,
         unit |-> u]

\* the jobs after dequeue result d: a Completed one is gone
AfterDequeue(us, d) ==
    IF d.res = "Completed" THEN [us EXCEPT ![d.unit] = Retired] ELSE us

\* a maybe_enque that moves on to the next endpoint before it refuses
MaybeEnque_RotatesFirst ==
    LET d == Dequeue(queue, Ready)
    IN  IF Overloaded(d)
        THEN [res |-> "Overload", deq |-> d.res,
              client_idx |-> NextClient(client_idx, nclients),
              units |-> AfterDequeue(units, d), queue |-> d.queue, unit |-> 0]
        ELSE LET s == EnqueueSendFuture(d.queue)
             IN  [res |-> IF s.res = "Ok" THEN "Ok" ELSE "EnqueueFailed",
                  deq |-> d.res, client_idx |-> s.client_idx,
                  units |-> AfterDequeue(s.units, d), queue |-> s.queue,
                  unit |-> s.unit]

\* maybe_enque: dequeue once, refuse on NotReady without capacity, else
\* enqueue_send_future.
MaybeEnque ==
    LET d == Dequeue(queue, Ready)
    IN  IF Overloaded(d)
        THEN [res |-> "Overload", deq |-> d.res, client_idx |-> client_idx,
              units |-> AfterDequeue(units, d), queue |-> d.queue, unit |-> 0]
        ELSE LET s == EnqueueSendFuture(d.queue)
             IN  [res |-> IF s.res = "Ok" THEN "Ok" ELSE "EnqueueFailed",
                  deq |-> d.res, client_idx |-> s.client_idx,
                  units |-> AfterDequeue(s.units, d), queue |-> s.queue,
                  unit |-> s.unit]

\* what Elastic::on_event hands back to its caller: the method returns (),
\* the result of maybe_enque is dropped by `let _ =`
OnEventReturn(res) == "Unit"

\* the AsyncSink holds as many receivers as its limit and the oldest has no
\* result yet
Full == Len(queue) = concurrency /\ Head(queue) \notin Ready

\* would a call of on_event with event ev hand a job to the pool
WouldSubmit(ev) ==
    /\ ~BuildPayload(ev, 1, <<>>).aborted
    /\ ~Overloaded(Dequeue(queue, Ready))

\* Elastic::on_event, but for what is remembered of the event in `out`
HandleEvent(ev) ==
    /\ WouldSubmit(ev) => Len(units) < MaxUnits
    /\ LET b == BuildPayload(ev, 1, <<>>)
       IN  IF b.aborted
           THEN /\ last' = [NoCall EXCEPT !.op = "on_event", !.full = Full,
                                          !.res = "NotCalled", !.ret = "Unit"]
                /\ UNCHANGED <<client_idx, units, queue>>
           ELSE LET m == MaybeEnque
                IN  /\ client_idx' = m.client_idx
                    /\ units' = m.units
                    /\ queue' = m.queue
                    /\ last' = [NoCall EXCEPT !.op = "on_event", !.full = Full,
                                   !.deq = m.deq,
                                   !.res = m.res, !.unit = m.unit,
                                   !.ret = OnEventReturn(m.res)]
    /\ UNCHANGED <<sink, graph, hist, pc, concurrency, nclients, pipelines, open>>

\* Elastic::on_event
OnEvent(ev) ==
    /\ HandleEvent(ev)
    /\ UNCHANGED out

\* Elastic::add_pipeline
\* the table after self.pipelines.insert(id, addr)
ElasticInsert(table, id, h) ==
    [p \in DOMAIN table \cup {id} |-> IF p = id THEN h ELSE table[p]]

AddPipeline(id, h) ==
    /\ pipelines' = ElasticInsert(pipelines, id, h)
    /\ last' = [NoCall EXCEPT !.op = "add_pipeline", !.arg = id, !.addr = h]
    /\ UNCHANGED <<sink, graph, out, hist, pc, concurrency, nclients, client_idx, queue, units, open>>

\* a remove_pipeline that looks at the table before it removes
ElasticRemove_ReportsBefore(table, id) ==
    [table |-> [p \in DOMAIN table \ {id} |-> table[p]],
     ret   |-> IF DOMAIN table = {} THEN "true" ELSE "false"]

\* self.pipelines.remove(&id); self.pipelines.is_empty(): the table the call
\* leaves and what it returns
ElasticRemove(table, id) ==
    LET t == [p \in DOMAIN table \ {id} |-> table[p]]
    IN  [table |-> t, ret |-> IF DOMAIN t = {} THEN "true" ELSE "false"]

\* Elastic::remove_pipeline
RemovePipeline(id) ==
    /\ pipelines' = ElasticRemove(pipelines, id).table
    /\ last' = [NoCall EXCEPT !.op = "remove_pipeline", !.arg = id,
                   !.ret = ElasticRemove(pipelines, id).ret]
    /\ UNCHANGED <<sink, graph, out, hist, pc, concurrency, nclients, client_idx, queue, units, open>>

\* the orders in which a job can meet the entries of its copy of the table
\* (the copy is collected from a HashMap: any order)
Orders(S) ==
    {o \in [1..Cardinality(S) -> S] : \A p \in S : \E i \in DOMAIN o : o[i] = p}

\* one turn of the loop `for (pid, p) in pipelines`: p.addr.send(insight); a
\* send to a dropped receiver is an Err and is logged
SendOne(job, pid, insight) ==
    IF job.targets[pid] \in open
    THEN [job EXCEPT !.got = [p \in DOMAIN @ \cup {pid} |->
                                 IF p = pid THEN insight ELSE @[p]]]
    ELSE job

\* a loop that a failed send ends
RECURSIVE SendAll_StopsAtClosed(_, _, _)
SendAll_StopsAtClosed(job, order, insight) ==
    IF order = <<>> \/ job.targets[Head(order)] \notin open
    THEN job
    ELSE SendAll_StopsAtClosed(SendOne(job, Head(order), insight),
                               Tail(order), insight)

\* the job's record after the loop `for (pid, p) in pipelines` has gone
\* through its copy of the table in `order`: the loop goes on after a failed
\* send
RECURSIVE SendAll(_, _, _)
SendAll(job, order, insight) ==
    IF order = <<>>
    THEN job
    ELSE SendAll(SendOne(job, Head(order), insight), Tail(order), insight)

\* a job that sends to the pipelines registered when it runs
JobRuns_LiveTable(u, ok, order) ==
    /\ u \in UnitIds
    /\ units[u].state = "queued"
    /\ HasThread(u)
    /\ order \in Orders(DOMAIN units[u].targets)
    /\ LET r == IF ok THEN "Ok" ELSE "Err"
       IN  units' = [units EXCEPT ![u] =
                        [@ EXCEPT !.state = "sent", !.r = r, !.built = @ + 1,
                                  !.got = [p \in DOMAIN pipelines |->
                                              MkInsight(r)]]]
    /\ UNCHANGED <<sink, graph, out, pc, concurrency, nclients, client_idx, pipelines, queue, open, last>>

\* The job on a pool thread, up to its last statement: flush returns (ok or
\* not), the Insight is built and sent to the pipelines of the job's table,
\* met in `order`.
JobRuns(u, ok, order) ==
    /\ u \in UnitIds
    /\ units[u].state = "queued"
    /\ HasThread(u)
    /\ order \in Orders(DOMAIN units[u].targets)
    /\ LET r == IF ok THEN "Ok" ELSE "Err"
       IN  units' = [units EXCEPT ![u] =
                        SendAll([@ EXCEPT !.state = "sent", !.r = r,
                                          !.built = @ + 1],
                                order, MkInsight(r))]
    /\ UNCHANGED <<sink, graph, out, pc, concurrency, nclients, client_idx, pipelines, queue, open, last>>

WorkerFlush(u, ok) ==
    /\ u \in UnitIds
    /\ \E order \in Orders(DOMAIN units[u].targets) : JobRuns(u, ok, order)
    /\ UNCHANGED hist

\* a job whose result can be sent before its Insight
WorkerFinish_BeforeSends(u) ==
    /\ u \in UnitIds
    /\ units[u].state \in {"queued", "sent"}
    /\ HasThread(u)
    /\ units' = [units EXCEPT ![u].state = "done"]
    /\ UNCHANGED <<sink, graph, out, hist, pc, concurrency, nclients, client_idx, pipelines, queue, open, last>>

\* The end of the job: tx.send(r); the thread is free again.
WorkerFinish(u) ==
    /\ u \in UnitIds
    /\ units[u].state = "sent"
    /\ units' = [units EXCEPT ![u].state = "done"]
    /\ UNCHANGED <<sink, graph, out, hist, pc, concurrency, nclients, client_idx, pipelines, queue, open, last>>

\* Elastic::from_config: an empty table, client_idx 0, a pool and an AsyncSink
\* of `concurrency`
Init ==
    /\ concurrency \in 1..MaxConcurrency
    /\ nclients \in 1..MaxEndpoints
    /\ client_idx = 0
    /\ pipelines = NoTable
    /\ queue = <<>>
    /\ units = <<>>
    /\ open = Handles
    /\ last = NoCall
    /\ hist = <<>>
    /\ pc = "idle"
    /\ sink = "elastic"
    /\ graph = NoGraph
    /\ out = NoOut

\* the steps of the pool thread that runs job u
Worker(u) ==
    \/ \E ok \in BOOLEAN : WorkerFlush(u, ok)
    \/ WorkerFinish(u)

\* on_event's effect on the offramp depends on the event only through
\* whether its loop returns early: one event of each kind is submitted.
Submitted ==
    { CHOOSE ev \in Events : BuildPayload(ev, 1, <<>>).aborted = a :
        a \in {BuildPayload(ev, 1, <<>>).aborted : ev \in Events} }

Next ==
    \/ \E ev \in Submitted : OnEvent(ev)
    \/ \E id \in PipelineIds : AddPipeline(id, AddrOf(id))
    \/ \E id \in PipelineIds : RemovePipeline(id)
    \/ \E u \in 1..MaxUnits, ok \in BOOLEAN : WorkerFlush(u, ok)
    \/ \E u \in 1..MaxUnits : WorkerFinish(u)

Spec == Init /\ [][Next]_vars

\* The pool's threads are scheduled and flush returns: a job that can take a
\* step does not wait forever while no job takes one.
FairSpec == Spec /\ WF_vars(\E u \in 1..MaxUnits : Worker(u))

\* ------------------------------------------- AsyncSink driven on its own
NoOp == [op |-> "none", res |-> "none", unit |-> 0, len |-> 0, head |-> 0,
         headReady |-> FALSE, laterReady |-> FALSE]

\* the call just made, with the queue it was made on
SinkOp(op, res, unit) ==
    [op |-> op, res |-> res, unit |-> unit, len |-> Len(queue),
     head |-> IF queue = <<>> THEN 0 ELSE Head(queue),
     headReady |-> (queue # <<>> /\ Head(queue) \in Ready),
     laterReady |-> (\E i \in 2..Len(queue) : queue[i] \in Ready)]

Remember(e) == <<hist[2], hist[3], e>>

\* a caller enqueues the handle of a new unit of work; a refused handle is
\* dropped
SinkEnqueue ==
    LET u == Len(units) + 1
        e == Enqueue(queue, concurrency, u)
    IN  /\ e.res = "Ok" => Len(units) < MaxUnits
        /\ queue' = e.queue
        /\ units' = IF e.res = "Ok" THEN Append(units, NewJob(0, NoTable)) ELSE units
        /\ hist' = Remember(SinkOp("enqueue", e.res, IF e.res = "Ok" THEN u ELSE 0))
        /\ UNCHANGED <<sink, graph, out, concurrency, nclients, client_idx, pipelines, open, last, pc>>

\* a caller polls
SinkDequeue ==
    LET d == Dequeue(queue, Ready)
    IN  /\ queue' = d.queue
        /\ units' = AfterDequeue(units, d)
        /\ hist' = Remember(SinkOp("dequeue", d.res, d.unit))
        /\ UNCHANGED <<sink, graph, out, concurrency, nclients, client_idx, pipelines, open, last, pc>>

\* the work behind handle u finishes and sends its result, in any order
SinkComplete(u) ==
    /\ u \in UnitIds
    /\ units[u].state = "queued"
    /\ units' = [units EXCEPT ![u].state = "done"]
    /\ UNCHANGED <<sink, graph, out, concurrency, nclients, client_idx, pipelines, queue, open,
                   last, hist, pc>>

SinkInit ==
    /\ concurrency \in 1..MaxConcurrency
    /\ nclients = 1
    /\ client_idx = 0
    /\ pipelines = NoTable
    /\ queue = <<>>
    /\ units = <<>>
    /\ open = Handles
    /\ last = NoCall
    /\ hist = <<NoOp, NoOp, NoOp>>
    /\ pc = "idle"
    /\ sink = "elastic"
    /\ graph = NoGraph
    /\ out = NoOut

SinkNext ==
    \/ SinkEnqueue
    \/ SinkDequeue
    \/ \E u \in 1..MaxUnits : SinkComplete(u)

SinkSpec == SinkInit /\ [][SinkNext]_vars

\* -------------------------------------------------------- NewRelic offramp
\* the values of an event as value_to_newrelic_log sees them: serializable
\* or not
NREvents == UNION { [1..n -> {"ok", "bad"}] : n \in 1..MaxBatch }

\* event.value_iter().map(value_to_newrelic_log).collect::<Result<_>>(): the
\* first value that fails fails the whole payload
NRPayload(ev) ==
    IF \E i \in 1..Len(ev) : ev[i] = "bad"
    THEN [res |-> "Err", logs |-> 0]
    ELSE [res |-> "Ok", logs |-> Len(ev)]

\* what NewRelic::send returns for the outcome of the request: `request.await?`
\* and the status check
NRSendResult(outcome) == IF outcome = "success" THEN "Ok" ELSE "Err"

\* what on_event returns after block_on(self.send(&payload))?
NROnEventReturn(sendres) == IF sendres = "Ok" THEN "Ok" ELSE "Err"

\* NewRelic::on_event up to the await of the request inside block_on; it
\* returns at once when the payload cannot be built
NROnEvent(ev) ==
    /\ pc = "idle"
    /\ LET b == NRPayload(ev)
       IN  IF b.res = "Err"
           THEN /\ last' = [NoCall EXCEPT !.op = "on_event", !.res = "EncodeError",
                                          !.ret = "Err"]
                /\ UNCHANGED <<units, pc>>
           ELSE /\ Len(units) < MaxUnits
                /\ units' = Append(units, [state |-> "posted", logs |-> b.logs])
                /\ pc' = "send"
                /\ last' = [NoCall EXCEPT !.op = "on_event", !.res = "Sending"]
    /\ UNCHANGED <<sink, graph, out, concurrency, nclients, client_idx, pipelines, queue, open, hist>>

\* The request completes: the thread blocked in on_event goes on and on_event
\* returns what send returned.
NRResponse(outcome) ==
    /\ pc = "send"
    /\ pc' = "idle"
    /\ units' = [units EXCEPT ![Len(units)].state = outcome]
    /\ last' = [last EXCEPT
                   !.res = IF NRSendResult(outcome) = "Ok" THEN "Delivered"
                           ELSE "DeliveryError",
                   !.ret = NROnEventReturn(NRSendResult(outcome))]
    /\ UNCHANGED <<sink, graph, out, concurrency, nclients, client_idx, pipelines, queue, open, hist>>

\* NewRelic::add_pipeline, NewRelic::remove_pipeline: the offramp's thread
\* is the one that runs on_event
\* an insert that leaves a registered id with the handle it has
NRInsert_KeepsOld(table, id, h) ==
    [p \in DOMAIN table \cup {id} |-> IF p \in DOMAIN table THEN table[p] ELSE h]

\* the table after self.pipelines.insert(id, addr)
NRInsert(table, id, h) ==
    [p \in DOMAIN table \cup {id} |-> IF p = id THEN h ELSE table[p]]

\* self.pipelines.remove(&id); self.pipelines.is_empty()
NRRemove(table, id) ==
    LET t == [p \in DOMAIN table \ {id} |-> table[p]]
    IN  [table |-> t, ret |-> IF DOMAIN t = {} THEN "true" ELSE "false"]

NRAddPipeline(id, h) ==
    /\ pc = "idle"
    /\ pipelines' = NRInsert(pipelines, id, h)
    /\ last' = [NoCall EXCEPT !.op = "add_pipeline", !.arg = id, !.addr = h]
    /\ UNCHANGED <<sink, graph, out, hist, pc, concurrency, nclients, client_idx, queue, units, open>>

NRRemovePipeline(id) ==
    /\ pc = "idle"
    /\ pipelines' = NRRemove(pipelines, id).table
    /\ last' = [NoCall EXCEPT !.op = "remove_pipeline", !.arg = id,
                   !.ret = NRRemove(pipelines, id).ret]
    /\ UNCHANGED <<sink, graph, out, hist, pc, concurrency, nclients, client_idx, queue, units, open>>

\* NewRelic::from_config
NRInit ==
    /\ concurrency = 1
    /\ nclients = 1
    /\ client_idx = 0
    /\ pipelines = NoTable
    /\ queue = <<>>
    /\ units = <<>>
    /\ open = Handles
    /\ last = NoCall
    /\ hist = <<>>
    /\ pc = "idle"
    /\ sink = "newrelic"
    /\ graph = NoGraph
    /\ out = NoOut

NRNext ==
    \/ \E ev \in NREvents : NROnEvent(ev)
    \/ \E outcome \in {"success", "status", "transport"} : NRResponse(outcome)
    \/ \E id \in PipelineIds, h \in Handles : NRAddPipeline(id, h)
    \/ \E id \in PipelineIds : NRRemovePipeline(id)

NRSpec == NRInit /\ [][NRNext]_vars

\* ------------------------------------------------- Elastic, channels closing
\* One endpoint and one pool thread; a pipeline may drop the receiver of its
\* channel at any time, and `hist` keeps the order in which the last job met
\* its pipelines.
NoBroadcast == [unit |-> 0, order |-> <<>>]

\* the receiver of a pipeline's channel is dropped: every later send to it
\* fails
ClosePipeline(h) ==
    /\ h \in open
    /\ open' = open \ {h}
    /\ UNCHANGED <<sink, graph, out, hist, pc, concurrency, nclients, client_idx, pipelines, queue, units, last>>

ChanFlush(u, ok, order) ==
    /\ JobRuns(u, ok, order)
    /\ hist' = [unit |-> u, order |-> order]

ChanInit ==
    /\ concurrency = 1
    /\ nclients = 1
    /\ client_idx = 0
    /\ pipelines = NoTable
    /\ queue = <<>>
    /\ units = <<>>
    /\ open = Handles
    /\ last = NoCall
    /\ hist = NoBroadcast
    /\ pc = "idle"
    /\ sink = "elastic"
    /\ graph = NoGraph
    /\ out = NoOut

ChanNext ==
    \/ \E ev \in Submitted : OnEvent(ev)
    \/ \E id \in PipelineIds, h \in Handles : AddPipeline(id, h)
    \/ \E id \in PipelineIds : RemovePipeline(id)
    \/ \E u \in 1..MaxUnits, ok \in BOOLEAN :
          \E order \in Orders(PipelineIds) \cup Orders({}) \cup
                        UNION {Orders({p}) : p \in PipelineIds} :
              ChanFlush(u, ok, order)
    \/ \E u \in 1..MaxUnits : WorkerFinish(u)
    \/ \E h \in Handles : ClosePipeline(h)

ChanSpec == ChanInit /\ [][ChanNext]_vars

\* ------------------------------------------------------------- File offramp
\* the table after self.pipelines.insert(id, addr)
FileInsert(table, id, h) ==
    [p \in DOMAIN table \cup {id} |-> IF p = id THEN h ELSE table[p]]

\* a remove_pipeline that empties the table
FileRemove_Clears(table, id) ==
    [table |-> NoTable, ret |-> "true"]

\* self.pipelines.remove(&id); self.pipelines.is_empty()
FileRemove(table, id) ==
    LET t == [p \in DOMAIN table \ {id} |-> table[p]]
    IN  [table |-> t, ret |-> IF DOMAIN t = {} THEN "true" ELSE "false"]

\* what codec.encode gives for the value of a sub-event: Ok(EventValue::Raw),
\* Ok of another kind of value, or an Err
Encodings == {"raw", "other", "err"}

\* event.into_iter() of an event given to the File offramp
FileEvents == UNION { [1..n -> Encodings] : n \in 1..MaxBatch }

\* a line of the file: the bytes of sub-event `sub`, and whether the newline
\* after them was written
FileLine(i, nl) == [sub |-> i, nl |-> nl]

\* The loop of File::on_event from sub-event i on. `written` is what the call
\* has put into the file so far, `fuel` the number of write_all calls that
\* still succeed: the unwrap() of a failed write_all panics.
RECURSIVE FileWrites(_, _, _, _)
FileWrites(ev, i, written, fuel) ==
    IF i > Len(ev) THEN [panicked |-> FALSE, lines |-> written]
    ELSE IF ev[i] # "raw" THEN FileWrites(ev, i + 1, written, fuel)
    ELSE IF fuel = 0 THEN [panicked |-> TRUE, lines |-> written]
    ELSE IF fuel = 1
         THEN [panicked |-> TRUE, lines |-> Append(written, FileLine(i, FALSE))]
    ELSE FileWrites(ev, i + 1, Append(written, FileLine(i, TRUE)), fuel - 2)

\* File::on_event; `out` keeps the event and what the call wrote
FileOnEvent(ev, fuel) ==
    /\ pc = "idle"
    /\ out' = [event |-> ev, lines |-> FileWrites(ev, 1, <<>>, fuel).lines,
               submitted |-> FALSE]
    /\ pc' = IF FileWrites(ev, 1, <<>>, fuel).panicked THEN "panicked" ELSE "idle"
    /\ last' = [NoCall EXCEPT !.op = "on_event",
                   !.ret = IF FileWrites(ev, 1, <<>>, fuel).panicked
                           THEN "Panic" ELSE "Unit"]
    /\ UNCHANGED <<sink, graph, hist, concurrency, nclients, client_idx, pipelines, queue, units, open>>

\* File::add_pipeline
FileAddPipeline(id, h) ==
    /\ pc = "idle"
    /\ pipelines' = FileInsert(pipelines, id, h)
    /\ last' = [NoCall EXCEPT !.op = "add_pipeline", !.arg = id, !.addr = h]
    /\ UNCHANGED <<sink, graph, out, hist, pc, concurrency, nclients, client_idx, queue, units, open>>

\* File::remove_pipeline
FileRemovePipeline(id) ==
    /\ pc = "idle"
    /\ pipelines' = FileRemove(pipelines, id).table
    /\ last' = [NoCall EXCEPT !.op = "remove_pipeline", !.arg = id,
                   !.ret = FileRemove(pipelines, id).ret]
    /\ UNCHANGED <<sink, graph, out, hist, pc, concurrency, nclients, client_idx, queue, units, open>>

\* File::from_config: the file is created, the table is empty
FileInit ==
    /\ sink = "file"
    /\ pc = "idle"
    /\ concurrency = 1
    /\ nclients = 1
    /\ client_idx = 0
    /\ pipelines = NoTable
    /\ queue = <<>>
    /\ units = <<>>
    /\ open = Handles
    /\ last = NoCall
    /\ hist = <<>>
    /\ graph = NoGraph
    /\ out = NoOut

FileNext ==
    \/ \E ev \in FileEvents, fuel \in 0..(2 * MaxBatch) : FileOnEvent(ev, fuel)
    \/ \E id \in PipelineIds, h \in Handles : FileAddPipeline(id, h)
    \/ \E id \in PipelineIds : FileRemovePipeline(id)

FileSpec == FileInit /\ [][FileNext]_vars

\* ------------------------------------------- building and wiring an offramp
\* What from_config is given: no configuration, one that does not
\* deserialize, one that does, and one that does but names a file that
\* cannot be created.
Sinks == {"elastic", "file", "newrelic"}
Configs == {"none", "invalid", "valid", "nofile"}

\* the error of ErrorKind::MissingOpConfig(e) and the error a string is
\* converted into, with the component its text names
MissingOpConfig(e) == [ok |-> FALSE, kind |-> "MissingOpConfig", names |-> e]
Msg(e) == [ok |-> FALSE, kind |-> "Msg", names |-> e]
Built == [ok |-> TRUE, kind |-> "none", names |-> ""]

\* Elastic::from_config
ElasticFromConfig(cfg) ==
    CASE cfg = "none"    -> Msg("elastic")
      [] cfg = "invalid" -> [ok |-> FALSE, kind |-> "Yaml", names |-> ""]
      [] OTHER           -> Built

\* File::from_config
FileFromConfig(cfg) ==
    CASE cfg = "none"    -> Msg("blackhole")
      [] cfg = "invalid" -> [ok |-> FALSE, kind |-> "Yaml", names |-> ""]
      [] cfg = "nofile"  -> [ok |-> FALSE, kind |-> "Io", names |-> ""]
      [] OTHER           -> Built

\* NewRelic::from_config
NRFromConfig(cfg) ==
    CASE cfg = "none"    -> Msg("newrelic")
      [] cfg = "invalid" -> [ok |-> FALSE, kind |-> "Yaml", names |-> ""]
      [] OTHER           -> Built

FromConfig(k, cfg) ==
    CASE k = "elastic" -> ElasticFromConfig(cfg)
      [] k = "file"    -> FileFromConfig(cfg)
      [] OTHER         -> NRFromConfig(cfg)

Inserted(k, table, id, h) ==
    CASE k = "elastic" -> ElasticInsert(table, id, h)
      [] k = "file"    -> FileInsert(table, id, h)
      [] OTHER         -> NRInsert(table, id, h)

Removed(k, table, id) ==
    CASE k = "elastic" -> ElasticRemove(table, id)
      [] k = "file"    -> FileRemove(table, id)
      [] OTHER         -> NRRemove(table, id)

\* from_config: an offramp with an empty table, or an error and no offramp
WireFromConfig(cfg) ==
    /\ pc = "new"
    /\ pc' = IF FromConfig(sink, cfg).ok THEN "idle" ELSE "new"
    /\ last' = [NoCall EXCEPT !.op = "from_config", !.arg = cfg,
                   !.res = FromConfig(sink, cfg).kind,
                   !.names = FromConfig(sink, cfg).names,
                   !.ret = IF FromConfig(sink, cfg).ok THEN "Ok" ELSE "Err"]
    /\ hist' = last
    /\ UNCHANGED <<sink, graph, out, concurrency, nclients, client_idx, pipelines, queue, units, open>>

WireAddPipeline(id, h) ==
    /\ pc = "idle"
    /\ pipelines' = Inserted(sink, pipelines, id, h)
    /\ last' = [NoCall EXCEPT !.op = "add_pipeline", !.arg = id, !.addr = h]
    /\ hist' = last
    /\ UNCHANGED <<sink, graph, out, pc, concurrency, nclients, client_idx, queue, units, open>>

WireRemovePipeline(id) ==
    /\ pc = "idle"
    /\ pipelines' = Removed(sink, pipelines, id).table
    /\ last' = [NoCall EXCEPT !.op = "remove_pipeline", !.arg = id,
                   !.ret = Removed(sink, pipelines, id).ret]
    /\ hist' = last
    /\ UNCHANGED <<sink, graph, out, pc, concurrency, nclients, client_idx, queue, units, open>>

\* no offramp yet
WireInit ==
    /\ sink \in Sinks
    /\ pc = "new"
    /\ concurrency = 1
    /\ nclients = 1
    /\ client_idx = 0
    /\ pipelines = NoTable
    /\ queue = <<>>
    /\ units = <<>>
    /\ open = Handles
    /\ last = NoCall
    /\ hist = NoCall
    /\ graph = NoGraph
    /\ out = NoOut

WireNext ==
    \/ \E cfg \in Configs : WireFromConfig(cfg)
    \/ \E id \in PipelineIds, h \in Handles : WireAddPipeline(id, h)
    \/ \E id \in PipelineIds : WireRemovePipeline(id)

WireSpec == WireInit /\ [][WireNext]_vars

\* --------------------------------------------------------------- GraphBuilder
\* A declaration is a graph id and a set of edges over the nodes; the
\* builder looks for a topological order node by node. graph.built is "none"
\* while it works, "graph" once it has returned a Graph with its order, and
\* "failed" once it has returned an error.
NodeIds == 1..MaxNodes
GraphIds == {"g1"}
Declarations ==
    {E \in SUBSET (NodeIds \X NodeIds) : Cardinality(E) <= MaxEdges}

CyclicGraphError(g) == [kind |-> "CyclicGraphError", names |-> g]

\* the nodes the order does not hold yet
Remaining(order) == NodeIds \ {order[i] : i \in DOMAIN order}

\* a builder that only looks for edges from a node to itself
CanVisit_SelfLoopsOnly(E, order, n) ==
    /\ n \in Remaining(order)
    /\ <<n, n>> \notin E

\* n can be the next node of the order: no edge comes to it from a node that
\* is not in the order yet
CanVisit(E, order, n) ==
    /\ n \in Remaining(order)
    /\ \A m \in Remaining(order) : <<m, n>> \notin E

\* the next node of the topological order
GraphVisit(n) ==
    /\ graph.built = "none"
    /\ CanVisit(graph.edges, graph.order, n)
    /\ graph' = [graph EXCEPT !.order = Append(@, n)]
    /\ UNCHANGED <<sink, out, hist, pc, concurrency, nclients, client_idx, pipelines, queue, units, open, last>>

\* every node is in the order: the Graph and its order are returned
GraphBuilt ==
    /\ graph.built = "none"
    /\ Remaining(graph.order) = {}
    /\ graph' = [graph EXCEPT !.built = "graph"]
    /\ UNCHANGED <<sink, out, hist, pc, concurrency, nclients, client_idx, pipelines, queue, units, open, last>>

\* nodes are left and none of them can be next: no topological order, the
\* build fails with CyclicGraphError and what was found is dropped
GraphRejected ==
    /\ graph.built = "none"
    /\ Remaining(graph.order) # {}
    /\ \A n \in NodeIds : ~CanVisit(graph.edges, graph.order, n)
    /\ graph' = [graph EXCEPT !.built = "failed", !.order = <<>>,
                              !.error = CyclicGraphError(graph.id)]
    /\ UNCHANGED <<sink, out, hist, pc, concurrency, nclients, client_idx, pipelines, queue, units, open, last>>

GraphInit ==
    /\ graph \in {[NoGraph EXCEPT !.id = g, !.edges = E] :
                      g \in GraphIds, E \in Declarations}
    /\ sink = "elastic"
    /\ pc = "new"
    /\ concurrency = 1
    /\ nclients = 1
    /\ client_idx = 0
    /\ pipelines = NoTable
    /\ queue = <<>>
    /\ units = <<>>
    /\ open = Handles
    /\ last = NoCall
    /\ hist = <<>>
    /\ out = NoOut

GraphNext ==
    \/ \E n \in NodeIds : GraphVisit(n)
    \/ GraphBuilt
    \/ GraphRejected

GraphSpec == GraphInit /\ [][GraphNext]_vars

\* ------------------------------------------------- Elastic, the bulk payload
\* One endpoint, one pool thread, no pipeline; on_event is called with every
\* event, and `out` keeps the event of the last call and the payload that
\* went to maybe_enque and from there into a job (no lines when no job was
\* made).
EvOnEvent(ev) ==
    /\ HandleEvent(ev)
    /\ out' = [event |-> ev,
               lines |-> IF last'.unit # 0
                         THEN BuildPayload(ev, 1, <<>>).payload ELSE <<>>,
               submitted |-> last'.unit # 0]

EvInit ==
    /\ concurrency = 1
    /\ nclients = 1
    /\ client_idx = 0
    /\ pipelines = NoTable
    /\ queue = <<>>
    /\ units = <<>>
    /\ open = Handles
    /\ last = NoCall
    /\ hist = <<>>
    /\ pc = "idle"
    /\ sink = "elastic"
    /\ graph = NoGraph
    /\ out = NoOut

EvNext ==
    \/ \E ev \in Events : EvOnEvent(ev)
    \/ \E u \in 1..MaxUnits, ok \in BOOLEAN : WorkerFlush(u, ok)
    \/ \E u \in 1..MaxUnits : WorkerFinish(u)

EventSpec == EvInit /\ [][EvNext]_vars

\* ------------------------------------------------------------------ claims
Live == {u \in UnitIds : ~units[u].dequeued}

\* C1: in the Elastic sink the number of units handed to the worker pool and
\* not yet dequeued from the AsyncSink never exceeds the concurrency limit.
C1_OutstandingWithinLimit == Cardinality(Outstanding) <= concurrency

\* an admission after a completion was drained, the sink at its limit again
C1_Witness ==
    /\ concurrency = 2
    /\ Len(units) = 3
    /\ Cardinality(Outstanding) = 2
    /\ last.op = "on_event" /\ last.deq = "Completed" /\ last.res = "Ok"

\* C2: an on_event called while the outstanding count equals the limit and
\* the oldest outstanding unit has not finished reports an overload failure
\* to its caller.
C2_OverloadReported ==
    (last.op = "on_event" /\ last.full) => last.ret = "Overload"

\* the Insights of the call `c` that pipeline p has got
InsightsFor(c, p) ==
    IF c.unit = 0 THEN 0
    ELSE IF p \in DOMAIN units[c.unit].got THEN 1 ELSE 0

\* the call's unit is still at work
Pending(c) == c.unit # 0 /\ units[c.unit].state # "done"

\* C3: every call of on_event, whether its submission succeeds or fails,
\* results in exactly one Insight delivered to each pipeline registered at
\* the time of the call (the table is the one of the call as long as the
\* call is the most recent one); stated of the calls that reach submission.
C3_OneInsightPerCall ==
    (last.op = "on_event" /\ last.res \in {"Ok", "Overload"} /\ ~Pending(last)) =>
        \A p \in DOMAIN pipelines : InsightsFor(last, p) = 1

AllSent(u) ==
    /\ u \in UnitIds
    /\ units[u].state = "sent"
    /\ units[u].r \in {"Ok", "Err"}
    /\ units[u].built = 1
    /\ DOMAIN units[u].got = DOMAIN units[u].targets
Finished(u) == u \in UnitIds /\ units[u].state = "done"
\* how far a job has got
Rank(job) == IF job.state = "queued" THEN 0 ELSE IF job.state = "sent" THEN 1 ELSE 2

\* C4: an admitted unit, under fair scheduling of the workers, eventually
\* has its result (success or failure), has sent its Insight to all its
\* targets and has run to completion, whatever on_event, add_pipeline and
\* remove_pipeline do meanwhile: time and again every unit handed to the pool
\* has finished, and no step removes a unit, moves it backwards or lets it
\* finish without its Insight sent.
C4_AdmittedCompletes ==
    /\ []<>(\A u \in UnitIds : Finished(u))
    /\ [][\A u \in UnitIds :
            /\ u \in DOMAIN units'
            /\ Rank(units'[u]) \in {Rank(units[u]), Rank(units[u]) + 1}
            /\ Rank(units'[u]) = 1 => AllSent(u)']_vars

\* a unit completed although the table changed and another event was
\* submitted after its admission
C4_Witness ==
    \E u \in UnitIds :
        /\ Finished(u) /\ ~units[u].dequeued
        /\ u < Len(units)
        /\ DOMAIN units[u].targets # {}
        /\ DOMAIN pipelines = {}
        /\ DOMAIN units[u].got = DOMAIN units[u].targets

\* C5: for every admitted unit exactly one Insight is built, without payload
\* value, with meta "time" and not "error" when the delivery succeeded and
\* "error" and not "time" when it failed, and that Insight is what every
\* pipeline the unit targets is sent.
C5_OneInsightPerUnit ==
    \A u \in Live :
        /\ units[u].built = (IF units[u].state = "queued" THEN 0 ELSE 1)
        /\ \A p \in DOMAIN units[u].got :
              /\ units[u].got[p].value = "None"
              /\ units[u].r = "Ok" =>
                    DOMAIN units[u].got[p].meta = {"time"}
              /\ units[u].r = "Err" =>
                    DOMAIN units[u].got[p].meta = {"error"}
              /\ \A q \in DOMAIN units[u].got :
                    units[u].got[q] = units[u].got[p]
        /\ units[u].state \in {"sent", "done"} =>
              DOMAIN units[u].got = DOMAIN units[u].targets

\* a failed delivery whose error Insight both registered pipelines got
C5_Witness ==
    \E u \in Live :
        /\ units[u].state = "done"
        /\ units[u].r = "Err"
        /\ DOMAIN units[u].targets = PipelineIds
        /\ \A p \in PipelineIds : "error" \in DOMAIN units[u].got[p].meta

\* the call made last on the AsyncSink
LastOp == hist[3]

EnqueuedOrder ==
    \A u, v \in UnitIds : (u < v /\ units[v].dequeued) => units[u].dequeued

\* C6: dequeue follows enqueue order: Completed only for the oldest
\* outstanding unit, which it removes; NotReady whenever the oldest has not
\* finished, even if later ones have; Empty exactly when nothing is
\* outstanding; so units are dequeued in submission order.
C6_DequeueFifo ==
    /\ LastOp.op = "dequeue" =>
          /\ LastOp.res = "Empty" <=> LastOp.len = 0
          /\ LastOp.res = "Completed" <=> (LastOp.len > 0 /\ LastOp.headReady)
          /\ LastOp.res = "NotReady" <=> (LastOp.len > 0 /\ ~LastOp.headReady)
          /\ LastOp.res = "Completed" =>
                /\ LastOp.unit = LastOp.head
                /\ units[LastOp.unit].dequeued
    /\ EnqueuedOrder
    /\ \A u \in UnitIds :
          units[u].dequeued <=> (\A i \in 1..Len(queue) : queue[i] # u)

\* the second unit finished first and was held back (NotReady) until the
\* first was dequeued
C6_Witness ==
    /\ hist[1].op = "dequeue" /\ hist[1].res = "NotReady" /\ hist[1].laterReady
    /\ hist[2].op = "dequeue" /\ hist[2].res = "Completed" /\ hist[2].unit = 1
    /\ hist[3].op = "dequeue" /\ hist[3].res = "Completed" /\ hist[3].unit = 2

\* C7: with the AsyncSink at its limit every enqueue fails with a capacity
\* error until a dequeue returns Completed; after one completion drained from
\* the full sink the next enqueue succeeds and the one after it fails.
C7_OneSlotPerCompletion ==
    /\ \A i \in 1..3 :
          hist[i].op = "enqueue" =>
              (hist[i].res = "CapacityExceeded" <=> hist[i].len = concurrency)
    /\ (/\ hist[1].op = "dequeue" /\ hist[1].res = "Completed"
        /\ hist[1].len = concurrency
        /\ hist[2].op = "enqueue" /\ hist[3].op = "enqueue")
       => (hist[2].res = "Ok" /\ hist[3].res = "CapacityExceeded")
    /\ Len(queue) <= concurrency

\* one completion drained from a full sink, then two enqueues
C7_Witness ==
    /\ hist[1].op = "dequeue" /\ hist[1].res = "Completed"
    /\ hist[1].len = concurrency
    /\ hist[2].op = "enqueue" /\ hist[2].res = "Ok"
    /\ hist[3].op = "enqueue" /\ hist[3].res = "CapacityExceeded"

\* C8: an enqueue made when the number of outstanding handles equals the
\* limit returns CapacityExceeded and leaves the outstanding handles and
\* their order unchanged.
C8_RefusedEnqueueNoChange ==
    [][(Len(queue) = concurrency /\ hist' # hist /\ hist'[3].op = "enqueue")
          => (/\ hist'[3].res = "CapacityExceeded"
              /\ queue' = queue
              /\ units' = units)]_vars

\* an enqueue refused on a full sink of two
C8_Witness ==
    /\ LastOp.op = "enqueue" /\ LastOp.res = "CapacityExceeded"
    /\ LastOp.len = 2 /\ Len(queue) = 2

\* C9: on_event never waits for external work: the delivery of the batch it
\* submits is never awaited by the call, so no request is in flight while
\* the caller is still inside on_event.
C9_OnEventNeverWaits ==
    \A i \in 1..Len(units) : units[i].state = "posted" => pc = "idle"

\* C10: a failure of the external delivery is never returned to the caller
\* of on_event.
C10_DeliveryErrorNotReturned ==
    (last.op = "on_event" /\ last.res = "DeliveryError") => last.ret # "Err"

\* C11: a send of the Insight to a pipeline whose channel is closed fails
\* without ending the broadcast: whatever the place of the closed pipeline in
\* the order of the loop, every pipeline of the job's table whose channel is
\* open has received the job's Insight once the loop is over.
C11_ClosedChannelSkipped ==
    \A u \in UnitIds :
        units[u].state \in {"sent", "done"} =>
            \A p \in DOMAIN units[u].targets :
                units[u].targets[p] \in open =>
                    /\ p \in DOMAIN units[u].got
                    /\ units[u].got[p] = MkInsight(units[u].r)

\* the loop met a closed pipeline first and the open one after it still got
\* the Insight
C11_Witness ==
    /\ hist.unit \in UnitIds
    /\ Len(hist.order) = 2
    /\ units[hist.unit].state = "sent"
    /\ hist.order[1] \notin DOMAIN units[hist.unit].got
    /\ hist.order[2] \in DOMAIN units[hist.unit].got
    /\ units[hist.unit].targets[hist.order[2]] \in open

\* C12: in every sink remove_pipeline(id) returns true exactly when the
\* table is empty after the removal.
C12_RemoveReportsEmpty ==
    last.op = "remove_pipeline" =>
        (last.ret = "true" <=> DOMAIN pipelines = {})

\* one of several registered pipelines was removed from a File offramp and
\* the call said the table is not empty
C12_Witness ==
    /\ sink = "file"
    /\ last.op = "remove_pipeline"
    /\ last.ret = "false"
    /\ DOMAIN pipelines = PipelineIds \ {last.arg}

\* C13 as stated: add_pipeline(id, handle) followed at once by
\* remove_pipeline(id) reports the table empty.
C13_AddThenRemoveReportsEmpty ==
    (last.op = "remove_pipeline" /\ hist.op = "add_pipeline"
        /\ hist.arg = last.arg) => last.ret = "true"

\* C13: add_pipeline(id, handle) followed at once by remove_pipeline(id)
\* reports the table empty exactly when no other pipeline id was registered
\* when the two calls were made.
C13_AddThenRemove ==
    [][(last.op = "add_pipeline" /\ last'.op = "remove_pipeline"
            /\ hist' = last /\ last'.arg = last.arg)
        => (last'.ret = "true" <=> DOMAIN pipelines \ {last.arg} = {})]_vars

\* an id was added and removed at once while another id was registered
C13_Witness ==
    /\ last.op = "remove_pipeline"
    /\ hist.op = "add_pipeline"
    /\ hist.arg = last.arg
    /\ last.ret = "false"
    /\ DOMAIN pipelines # {}

\* C14: add_pipeline(id, handle) inserts or overwrites (the id is registered
\* with that handle afterwards, the other entries are as they were, and the
\* number of entries grows by one exactly when the id was not registered), and
\* one remove_pipeline(id) leaves no entry for the id and the others as they
\* were.
C14_InsertOrOverwrite ==
    [][/\ (last'.op = "add_pipeline" /\ hist' = last) =>
            /\ DOMAIN pipelines' = DOMAIN pipelines \cup {last'.arg}
            /\ pipelines'[last'.arg] = last'.addr
            /\ \A p \in DOMAIN pipelines \ {last'.arg} :
                    pipelines'[p] = pipelines[p]
            /\ Cardinality(DOMAIN pipelines') =
                    Cardinality(DOMAIN pipelines)
                      + (IF last'.arg \in DOMAIN pipelines THEN 0 ELSE 1)
       /\ (last'.op = "remove_pipeline" /\ hist' = last) =>
            /\ DOMAIN pipelines' = DOMAIN pipelines \ {last'.arg}
            /\ \A p \in DOMAIN pipelines' : pipelines'[p] = pipelines[p]]_vars

\* an id registered with one handle was added again with another: one entry,
\* with the new handle
C14_Witness ==
    /\ last.op = "add_pipeline"
    /\ hist.op = "add_pipeline"
    /\ hist.arg = last.arg
    /\ hist.addr # last.addr
    /\ DOMAIN pipelines = {last.arg}
    /\ pipelines[last.arg] = last.addr

\* C16: from_config without a configuration fails with MissingOpConfig naming
\* the offramp that was to be built, and builds no offramp.
C16_MissingConfigNamed ==
    (last.op = "from_config" /\ last.arg = "none") =>
        /\ last.ret = "Err"
        /\ pc = "new"
        /\ [ok |-> FALSE, kind |-> last.res, names |-> last.names]
              = MissingOpConfig(sink)

\* the endpoints that the jobs u .. u+n-1 go to, when none of them has been
\* dropped yet
Window(u, n) == {units[v].dest : v \in u..(u + n - 1)}

\* C15: the endpoint index stays within 0..N-1, moves on by one modulo N with
\* every job handed to the pool (the job goes to the endpoint the index then
\* names) and in no other step, and any N jobs handed over one after the
\* other go to N different endpoints.
C15_RoundRobin ==
    /\ [](/\ client_idx \in 0..(nclients - 1)
          /\ \A u \in UnitIds :
                (/\ u + nclients - 1 \in UnitIds
                 /\ \A v \in u..(u + nclients - 1) : ~units[v].dequeued)
                => Window(u, nclients) = 0..(nclients - 1))
    /\ [][IF Len(units') = Len(units) + 1
          THEN /\ client_idx' = (client_idx + 1) % nclients
               /\ units'[Len(units')].dest = client_idx'
          ELSE client_idx' = client_idx]_vars

\* two endpoints, three jobs handed over: the last two are still there and
\* went to endpoint 0 and then to endpoint 1
C15_Witness ==
    /\ nclients = 2
    /\ Len(units) = 3
    /\ ~units[2].dequeued /\ ~units[3].dequeued
    /\ units[2].dest = 0
    /\ units[3].dest = 1
    /\ client_idx = 1

\* C20: an on_event refused for overload hands no job to the pool and leaves
\* the endpoint index, the outstanding handles, the jobs (so no Insight is
\* ever built for the event), the table and the channels as they were.
C20_RefusalChangesNothing ==
    [][(last' # last /\ last'.op = "on_event" /\ last'.res = "Overload")
        => /\ last'.unit = 0
           /\ units' = units
           /\ client_idx' = client_idx
           /\ queue' = queue
           /\ pipelines' = pipelines
           /\ open' = open]_vars

\* an event was refused while two jobs were outstanding and a pipeline was
\* registered
C20_Witness ==
    /\ last.op = "on_event"
    /\ last.res = "Overload"
    /\ Len(queue) = 2
    /\ nclients = 2
    /\ DOMAIN pipelines # {}

\* the nodes that a path of one or more edges of E leads to from the nodes
\* of S
RECURSIVE ReachedFrom(_, _)
ReachedFrom(E, S) ==
    LET T == S \cup {e[2] : e \in {d \in E : d[1] \in S}}
    IN  IF T = S THEN S ELSE ReachedFrom(E, T)

HasCycle(E) ==
    \E n \in NodeIds : n \in ReachedFrom(E, {e[2] : e \in {d \in E : d[1] = n}})

\* C17: a declaration whose edges contain a cycle never gives a Graph; once
\* the builder has returned, the result is CyclicGraphError naming the graph
\* and nothing of an order is kept.
C17_CycleRejected ==
    HasCycle(graph.edges) =>
        /\ graph.built # "graph"
        /\ graph.built = "failed" =>
              /\ graph.error = CyclicGraphError(graph.id)
              /\ graph.order = <<>>
        /\ graph.built = "none" => graph.error = NoError

\* the edges 1 -> 2, 2 -> 3 and 3 -> 2: the builder put node 1 in the order,
\* then failed
C17_Witness ==
    /\ graph.edges = {<<1, 2>>, <<2, 3>>, <<3, 2>>}
    /\ graph.built = "failed"
    /\ graph.error = CyclicGraphError("g1")

\* a sub-event Elastic can deliver: index and doc_type set, a JSON value
WellFormed(e) == e.index /\ e.doc_type /\ e.json

\* C18: of an event that is not refused for overload, every well-formed
\* sub-event is delivered (its action line and its document line are in the
\* payload of the job made for the event) and a malformed sub-event alone is
\* left out, with no line of its own in the payload.
C18_SubEventIsolation ==
    (last.op = "on_event" /\ last.res # "Overload") =>
        \A i \in 1..Len(out.event) :
            IF WellFormed(out.event[i])
            THEN /\ out.submitted
                 /\ \E k \in DOMAIN out.lines :
                        out.lines[k] = ActionLine(i, out.event[i])
                 /\ \E k \in DOMAIN out.lines : out.lines[k] = DocLine(i)
            ELSE \A k \in DOMAIN out.lines : out.lines[k].sub # i

\* C19: every call of Elastic::on_event performs exactly one dequeue, and
\* the AsyncSink holds one handle for each job whose result has not been
\* dequeued.
C19_OneDequeuePerOnEvent ==
    /\ last.op = "on_event" => last.deq \in {"Empty", "NotReady", "Completed"}
    /\ Len(queue) = Cardinality({u \in UnitIds : ~units[u].dequeued})

\* C21: the enqueue at the end of enqueue_send_future never fails, so every
\* job handed to the pool whose result has not been dequeued has its handle
\* in the AsyncSink, once each.
C21_SubmittedIsTracked ==
    /\ last.res # "EnqueueFailed"
    /\ \A u \in Live :
          Cardinality({i \in DOMAIN queue : queue[i] = u}) = 1

\* with the AsyncSink at its limit of two, on_event dequeued a result and
\* the handle of the new job went in
C21_Witness ==
    /\ concurrency = 2
    /\ last.op = "on_event"
    /\ last.deq = "Completed"
    /\ last.res = "Ok"
    /\ Len(queue) = 2
    /\ queue[2] = last.unit

\* C22: a job's copy of the table is the table of the moment the job was
\* handed to the pool and does not change afterwards, and the pipelines that
\* have got the job's Insight once it has sent are the pipelines of that copy:
\* one removed meanwhile is among them, one added meanwhile is not.
C22_RecipientsAtSubmission ==
    /\ [](\A u \in Live :
            units[u].state \in {"sent", "done"} =>
                DOMAIN units[u].got = DOMAIN units[u].targets)
    /\ [][/\ Len(units') = Len(units) + 1 =>
                units'[Len(units')].targets = pipelines
          /\ \A u \in UnitIds :
                (u \in DOMAIN units' /\ ~units'[u].dequeued) =>
                    units'[u].targets = units[u].targets]_vars

\* a job handed over while only p1 was registered has sent after p1 was
\* removed and p2 was added: p1 got the Insight, p2 did not
C22_Witness ==
    \E u \in Live :
        /\ units[u].state = "sent"
        /\ DOMAIN units[u].targets = {"p1"}
        /\ DOMAIN pipelines = {"p2"}
        /\ DOMAIN units[u].got = {"p1"}

\* C23: a result that a dequeue takes as Completed is the result of a job
\* that has built its Insight and sent it to every pipeline of its copy of
\* the table, and a job sends its Insight without being dequeued, whatever
\* the jobs handed over before it have done.
C23_InsightBeforeResult ==
    /\ [](\A u \in Live :
            units[u].state = "done" =>
                /\ units[u].built = 1
                /\ units[u].r \in {"Ok", "Err"}
                /\ DOMAIN units[u].got = DOMAIN units[u].targets)
    /\ [][\A u \in UnitIds :
            (u \in DOMAIN units' /\ units'[u].dequeued /\ ~units[u].dequeued) =>
                /\ last'.deq = "Completed"
                /\ units[u].state = "done"
                /\ units[u].built = 1
                /\ DOMAIN units[u].got = DOMAIN units[u].targets]_vars

\* the second job has sent its Insight to a pipeline while the first has
\* not run yet and neither has been dequeued
C23_Witness ==
    /\ Len(units) >= 2
    /\ ~units[1].dequeued /\ ~units[2].dequeued
    /\ units[1].state = "queued"
    /\ units[2].state \in {"sent", "done"}
    /\ DOMAIN units[2].got # {}

\* C24: the payload of every job made for an event is a sequence of pairs,
\* an action line and then the document line of the same sub-event, in the
\* order of the sub-events.
C24_ActionDocPairs ==
    out.submitted =>
        /\ Len(out.lines) % 2 = 0
        /\ \A k \in DOMAIN out.lines :
              k % 2 = 1 =>
                  /\ out.lines[k].kind = "action"
                  /\ k + 1 \in DOMAIN out.lines
                  /\ out.lines[k + 1] = DocLine(out.lines[k].sub)
        /\ \A j, k \in DOMAIN out.lines :
              (j < k /\ j % 2 = 1 /\ k % 2 = 1) =>
                  out.lines[j].sub < out.lines[k].sub

\* the positions of the sub-events of ev whose value encodes to raw bytes
RawSubs(ev) ==
    SelectSeq([i \in 1..Len(ev) |-> i], LAMBDA i : ev[i] = "raw")

\* C25: a call of File::on_event writes one whole line for each sub-event
\* whose value encodes to raw bytes, in the order of the sub-events, and
\* nothing for the others.
C25_OneLinePerRaw ==
    (sink = "file" /\ last.op = "on_event") =>
        out.lines = [k \in 1..Len(RawSubs(out.event)) |->
                        FileLine(RawSubs(out.event)[k], TRUE)]

====
